---------------------------- MODULE Spec2Model ----------------------------
(***************************************************************************)
(* A model of app.py, the CSV File Comparison Tool: read_csv_safely (the   *)
(* two-pass loader), find_unique_records (the set difference of two        *)
(* tables) and main (one Streamlit script run per user interaction).       *)
(*                                                                         *)
(* Two specifications:                                                     *)
(*   SpecDiff  find_unique_records applied to bounded tables, then applied *)
(*             again to the swapped tables or to a table with one row      *)
(*             duplicated;                                                 *)
(*   Spec      the application: the user uploads files, ticks the          *)
(*             checkbox and clicks buttons; each interaction reruns main,  *)
(*             which loads both files and compares them.                   *)
(***************************************************************************)
EXTENDS Integers, Sequences, FiniteSets, TLC

(***************************************************************************)
(* Bounds of the model.                                                    *)
(***************************************************************************)
\* the most rows an input table of SpecDiff has
MaxRows == 2

(***************************************************************************)
(* Tables.  A DataFrame is its column names and its rows, each row the     *)
(* tuple of its cells.  Cells are numbers; NaN is the float pandas stores  *)
(* for an empty field of a numeric column.                                 *)
(***************************************************************************)
NaN == -1

\* None, and a present value, of an optional (df, error, unique_df, ...)
None == <<>>
Some(x) == <<x>>
Val(o) == o[1]

DataFrame(rows, columns) == [columns |-> columns, rows |-> rows]

Min(x, y) == IF x <= y THEN x ELSE y

\* the set of the elements of a sequence
Range(s) == {s[i] : i \in 1..Len(s)}

\* every sequence over S of length at most n
SeqUpTo(S, n) == UNION {[1..k -> S] : k \in 0..n}

\* every order in which the elements of a finite set can be listed
Orders(S) == {s \in [1..Cardinality(S) -> S] :
                \A i, j \in 1..Cardinality(S) : s[i] = s[j] => i = j}

(***************************************************************************)
(* find_unique_records, app.py lines 39-56.                                *)
(***************************************************************************)
\* One cell of the tuple that df.apply(tuple, axis=1) builds for row i of the
\* table passed as argument t: the cell's value and the identity of the
\* object that holds it.  Python compares and hashes tuple items by identity
\* first and by == next; numbers that are equal compare equal whatever object
\* holds them (identity 0 here), while every NaN of a numeric column is a
\* float object of its own, unequal to every other NaN (nan != nan).
CellObject(v, t, i, c) == IF v = NaN THEN <<v, t, i, c>> ELSE <<v, 0, 0, 0>>

\* tuple(row): the comparison key of row i of df
RowTuple(df, t, i) ==
    [c \in 1..Len(df.rows[i]) |-> CellObject(df.rows[i][c], t, i, c)]

\* set(df.apply(tuple, axis=1)); a table of no rows gives the empty set
Records(df, t) == {RowTuple(df, t, i) : i \in 1..Len(df.rows)}

\* the cells that pd.DataFrame stores for one tuple of the set
TupleRow(k) == [c \in 1..Len(k) |-> k[c][1]]

\* line 49 with the operands the wrong way round
UniqueInDf1Swapped(df1_records, df2_records) == df2_records \ df1_records

\* line 49
UniqueInDf1(df1_records, df2_records) == df1_records \ df2_records

\* line 50 without the subtraction
UniqueInDf2NoSubtract(df1_records, df2_records) == df2_records

\* line 50
UniqueInDf2(df1_records, df2_records) == df2_records \ df1_records

\* pd.DataFrame(list(records), columns=columns): list() of a set lists it in
\* an order the language does not fix, so every order is a possible result
FramesOf(records, columns) ==
    {DataFrame([i \in 1..Len(o) |-> TupleRow(o[i])], columns) : o \in Orders(records)}

\* every pair <<unique_df1, unique_df2>> find_unique_records(df1, df2) can return
FindUniqueRecords(df1, df2) ==
    LET df1_records == Records(df1, 1)
        df2_records == Records(df2, 2)
    IN  FramesOf(UniqueInDf1(df1_records, df2_records), df1.columns)
          \X FramesOf(UniqueInDf2(df1_records, df2_records), df2.columns)

(***************************************************************************)
(* The tables SpecDiff compares: two columns, "id" an integer column and   *)
(* "val" a numeric column in which a field may be empty; two rows that     *)
(* differ in "id" and one row whose "val" is empty.                        *)
(***************************************************************************)
Columns == <<"id", "val">>
Rows == {<<1, 1>>, <<2, 1>>, <<2, NaN>>}
Tables == {DataFrame(r, Columns) : r \in SeqUpTo(Rows, MaxRows)}

\* a table as the set of its rows, equal cells (NaN included) making equal rows
RowSet(df) == Range(df.rows)

VARIABLES
    \* SpecDiff
    tableA, tableB,             \* the tables given to find_unique_records
    onlyInFirst, onlyInSecond,  \* what it returned
    prevFirst, prevSecond,      \* what the comparison before this one returned
    step,                       \* "input", "compared", "swapped", "dupA", "dupB"
    \* Spec: the browser session, kept from one run of main to the next
    file1, file2,               \* the uploaded files, None or Some(file)
    proceedBox,                 \* the stored value of the "Proceed" checkbox
    shown,                      \* the widgets the last run rendered
    click,                      \* the button whose click started this run
    shownFirst, shownSecond,    \* the results the run before this one displayed
    \* Spec: one run of main
    pc,                         \* where the run is; "idle" once it has ended
    df1, error1, df2, error2,   \* what the two read_csv_safely calls returned
    loads,                      \* the files read_csv_safely was called on
    checked,                    \* what st.checkbox returned, None if not asked
    compareArgs,                \* the arguments find_unique_records was given
    unique_df1, unique_df2,     \* what it returned
    combined_unique,            \* the combined table, None if not built
    excerpt,                    \* the length of the text st.code displayed
    fault,                      \* the exception that escaped main, or None
    \* Spec: one call of read_csv_safely
    lpc,                        \* "off", "sample", "lenient", "strict", "returned"
    pos,                        \* the position of the file being read
    lenientTries, strictTries,  \* how often each pass was attempted
    lenientStart, strictStart,  \* the position each pass started reading at
    lenientFailed               \* whether the lenient pass raised

diffVars == <<tableA, tableB, onlyInFirst, onlyInSecond, prevFirst, prevSecond, step>>

sessionVars == <<file1, file2, proceedBox, shown, click, shownFirst, shownSecond>>

runVars == <<pc, df1, error1, df2, error2, loads, checked, compareArgs,
             unique_df1, unique_df2, combined_unique, excerpt, fault>>

loadVars == <<lpc, pos, lenientTries, strictTries, lenientStart, strictStart,
              lenientFailed>>

appVars == <<sessionVars, runVars, loadVars>>

vars == <<diffVars, appVars>>

NoFrame == DataFrame(<<>>, <<>>)

\* the application before its first run
AppOff ==
    /\ file1 = None /\ file2 = None
    /\ proceedBox = FALSE
    /\ shown = {}
    /\ click = "none"
    /\ shownFirst = None /\ shownSecond = None
    /\ df1 = None /\ error1 = None /\ df2 = None /\ error2 = None
    /\ loads = {}
    /\ checked = None
    /\ compareArgs = None
    /\ unique_df1 = None /\ unique_df2 = None
    /\ combined_unique = None
    /\ excerpt = None
    /\ fault = None
    /\ lpc = "off"
    /\ pos = 0
    /\ lenientTries = 0 /\ strictTries = 0
    /\ lenientStart = None /\ strictStart = None
    /\ lenientFailed = FALSE

DiffInit ==
    /\ AppOff
    /\ pc = "off"
    /\ tableA \in Tables
    /\ tableB \in Tables
    /\ onlyInFirst = NoFrame
    /\ onlyInSecond = NoFrame
    /\ prevFirst = NoFrame
    /\ prevSecond = NoFrame
    /\ step = "input"

\* find_unique_records(tableA, tableB)
Compare ==
    /\ step = "input"
    /\ \E r \in FindUniqueRecords(tableA, tableB) :
          /\ onlyInFirst' = r[1]
          /\ onlyInSecond' = r[2]
    /\ step' = "compared"
    /\ UNCHANGED <<tableA, tableB, prevFirst, prevSecond>>
    /\ UNCHANGED appVars

\* then find_unique_records(tableB, tableA), the same tables swapped
CompareSwapped ==
    /\ step = "compared"
    /\ tableA' = tableB
    /\ tableB' = tableA
    /\ prevFirst' = onlyInFirst
    /\ prevSecond' = onlyInSecond
    /\ \E r \in FindUniqueRecords(tableB, tableA) :
          /\ onlyInFirst' = r[1]
          /\ onlyInSecond' = r[2]
    /\ step' = "swapped"
    /\ UNCHANGED appVars

\* the table df with one more copy of its row i appended
WithDuplicate(df, i) == DataFrame(Append(df.rows, df.rows[i]), df.columns)

\* then find_unique_records(tableA plus a copy of one of its rows, tableB)
CompareDuplicatedA ==
    /\ step = "compared"
    /\ \E i \in 1..Len(tableA.rows) :
          /\ tableA' = WithDuplicate(tableA, i)
          /\ \E r \in FindUniqueRecords(WithDuplicate(tableA, i), tableB) :
                /\ onlyInFirst' = r[1]
                /\ onlyInSecond' = r[2]
    /\ prevFirst' = onlyInFirst
    /\ prevSecond' = onlyInSecond
    /\ step' = "dupA"
    /\ UNCHANGED tableB
    /\ UNCHANGED appVars

\* then find_unique_records(tableA, tableB plus a copy of one of its rows)
CompareDuplicatedB ==
    /\ step = "compared"
    /\ \E i \in 1..Len(tableB.rows) :
          /\ tableB' = WithDuplicate(tableB, i)
          /\ \E r \in FindUniqueRecords(tableA, WithDuplicate(tableB, i)) :
                /\ onlyInFirst' = r[1]
                /\ onlyInSecond' = r[2]
    /\ prevFirst' = onlyInFirst
    /\ prevSecond' = onlyInSecond
    /\ step' = "dupB"
    /\ UNCHANGED tableA
    /\ UNCHANGED appVars

DiffNext == Compare \/ CompareSwapped \/ CompareDuplicatedA \/ CompareDuplicatedB

SpecDiff == DiffInit /\ [][DiffNext]_vars

(***************************************************************************)
(* The uploaded files.  A file is modelled by what the code can observe of *)
(* it: its size, whether its first SampleSize bytes and whether all of its *)
(* bytes decode as UTF-8, what each of the two pd.read_csv passes makes of *)
(* it (a table, or None when the pass raises) and the message of the       *)
(* exception a failed load reports.                                        *)
(***************************************************************************)
\* file.read(1024), line 12
SampleSize == 1024

\* [:500], lines 79 and 88
ExcerptLen == 500

UploadedFile(kind, size, sampleOK, textOK, lenient, strict, message) ==
    [kind |-> kind, size |-> size, sampleOK |-> sampleOK, textOK |-> textOK,
     lenient |-> lenient, strict |-> strict, message |-> message]

\* the tables the well-formed files of Spec hold
FileTables ==
    {DataFrame(<<<<1, 1>>, <<2, 1>>>>, <<"id", "val">>),
     DataFrame(<<<<2, 1>>, <<1, NaN>>>>, <<"id", "val">>),
     DataFrame(<<>>, <<"id", "val">>),
     DataFrame(<<<<1, 2>>>>, <<"val", "id">>),
     DataFrame(<<<<1, 1>>>>, <<"id", "name">>)}

Files ==
    \* both passes parse the file
    {UploadedFile("good", 2000, TRUE, TRUE, Some(t), Some(t), "") : t \in FileTables}
    \cup
    {\* the python engine raises, the C engine parses and skips a bad row
     UploadedFile("ragged", 300, TRUE, TRUE, None,
                  Some(DataFrame(<<<<1, 1>>>>, <<"id", "val">>)), ""),
     \* a file of no bytes: both passes raise EmptyDataError
     UploadedFile("empty", 0, TRUE, TRUE, None, None,
                  "No columns to parse from file"),
     \* a byte that is not UTF-8 among the first 1024
     UploadedFile("badhead", 300, FALSE, FALSE, None, None,
                  "'utf-8' codec can't decode byte"),
     \* a byte that is not UTF-8 after the first 1024
     UploadedFile("badtail", 2000, TRUE, FALSE, None, None,
                  "'utf-8' codec can't decode byte"),
     \* valid UTF-8 with a multi-byte character across byte 1024
     UploadedFile("splitchar", 2000, FALSE, TRUE,
                  Some(DataFrame(<<<<1, 1>>>>, <<"id", "val">>)),
                  Some(DataFrame(<<<<1, 1>>>>, <<"id", "val">>)),
                  "'utf-8' codec can't decode byte")}

\* where a pass that raised can have left the file position
StoppedAt(f) == {Min(SampleSize, f.size), f.size}

(***************************************************************************)
(* read_csv_safely, app.py lines 5-37, one action per statement that can   *)
(* raise.  The file being loaded is file1 while pc = "load1" and file2     *)
(* while pc = "load2".                                                     *)
(***************************************************************************)
Loading == pc \in {"load1", "load2"}
LoadedFile == IF pc = "load1" THEN Val(file1) ELSE Val(file2)

\* return df, err: into (df1, error1) or (df2, error2) of main, lines 73, 82
Return(df, err) ==
    IF pc = "load1"
    THEN df1' = df /\ error1' = err /\ UNCHANGED <<df2, error2>>
    ELSE df2' = df /\ error2' = err /\ UNCHANGED <<df1, error1>>

\* line 26 left out: the second pass reads on from where the first stopped
NoRewind(p) == p

\* file.seek(0) before the second pd.read_csv, line 26
RewindForStrict(p) == 0

\* lines 12-13: sample = file.read(1024).decode('utf-8'); file.seek(0)
ReadSample ==
    /\ Loading /\ lpc = "sample"
    /\ IF LoadedFile.sampleOK
       THEN /\ pos' = 0
            /\ lpc' = "lenient"
            /\ UNCHANGED <<df1, error1, df2, error2>>
       ELSE \* UnicodeDecodeError, caught at line 36
            /\ pos' = Min(SampleSize, LoadedFile.size)
            /\ lpc' = "returned"
            /\ Return(None, Some(LoadedFile.message))
    /\ UNCHANGED <<lenientTries, strictTries, lenientStart, strictStart, lenientFailed>>
    /\ UNCHANGED <<pc, loads, checked, compareArgs, unique_df1, unique_df2,
                   combined_unique, excerpt, fault>>
    /\ UNCHANGED <<sessionVars, diffVars>>

\* lines 16-23 and 35: pd.read_csv(engine='python', on_bad_lines='warn')
LenientPass ==
    /\ Loading /\ lpc = "lenient"
    /\ lenientTries' = lenientTries + 1
    /\ lenientStart' = Some(pos)
    /\ IF LoadedFile.lenient # None
       THEN /\ lenientFailed' = FALSE
            /\ pos' = LoadedFile.size
            /\ lpc' = "returned"
            /\ Return(LoadedFile.lenient, None)
       ELSE \* the pass raised: except Exception, line 24
            /\ lenientFailed' = TRUE
            /\ pos' \in StoppedAt(LoadedFile)
            /\ lpc' = "strict"
            /\ UNCHANGED <<df1, error1, df2, error2>>
    /\ UNCHANGED <<strictTries, strictStart>>
    /\ UNCHANGED <<pc, loads, checked, compareArgs, unique_df1, unique_df2,
                   combined_unique, excerpt, fault>>
    /\ UNCHANGED <<sessionVars, diffVars>>

\* lines 25-37: file.seek(0); pd.read_csv(engine='c', on_bad_lines='skip')
StrictPass ==
    /\ Loading /\ lpc = "strict"
    /\ strictTries' = strictTries + 1
    /\ strictStart' = Some(RewindForStrict(pos))
    /\ lpc' = "returned"
    /\ IF LoadedFile.strict # None
       THEN /\ pos' = LoadedFile.size
            /\ Return(LoadedFile.strict, None)
       ELSE \* the pass raised too: except Exception, line 36
            /\ pos' \in StoppedAt(LoadedFile)
            /\ Return(None, Some(LoadedFile.message))
    /\ UNCHANGED <<lenientTries, lenientStart, lenientFailed>>
    /\ UNCHANGED <<pc, loads, checked, compareArgs, unique_df1, unique_df2,
                   combined_unique, excerpt, fault>>
    /\ UNCHANGED <<sessionVars, diffVars>>

\* a fresh call of read_csv_safely; st.file_uploader hands each run of main
\* the uploaded file at position 0
EnterLoad ==
    /\ lpc' = "sample"
    /\ pos' = 0
    /\ lenientTries' = 0 /\ strictTries' = 0
    /\ lenientStart' = None /\ strictStart' = None
    /\ lenientFailed' = FALSE

LoadOff ==
    /\ lpc' = "off"
    /\ pos' = 0
    /\ lenientTries' = 0 /\ strictTries' = 0
    /\ lenientStart' = None /\ strictStart' = None
    /\ lenientFailed' = FALSE

(***************************************************************************)
(* main, app.py lines 58-173.  Streamlit runs main from the top after      *)
(* every interaction of the user with a widget.  st.button returns True    *)
(* only in the run its own click started; st.checkbox returns the stored   *)
(* value of the box, which is False when the box was not on the page.      *)
(***************************************************************************)
\* lines 74-80 without the return
IgnoresError(err) == FALSE

\* `if error1:`, `if error2:`, lines 74 and 83: an error message that is not empty
ReturnsAfterError(err) == err # None /\ Val(err) # ""

\* lines 121-122 without the return
NeverReturnsOnMismatch(proceed) == FALSE

\* `if not st.checkbox("Proceed with comparison anyway"): return`, lines 121-122
ReturnsOnMismatch(proceed) == ~proceed

\* st.button(label), lines 125 and 161
ButtonPressed(b) == click = b

\* set(df.columns), line 118
ColumnSet(df) == Range(df.columns)

ColumnIndex(df, name) == CHOOSE j \in 1..Len(df.columns) : df.columns[j] = name

\* pd.concat([a, b], ignore_index=True), line 162: the rows of a, then the
\* rows of b, over the columns of a followed by the columns only b has; a
\* cell of a column its table lacks is NaN
Concat(a, b) ==
    LET columns == a.columns \o SelectSeq(b.columns, LAMBDA n : n \notin ColumnSet(a))
        Reindexed(df, r) ==
            [c \in 1..Len(columns) |->
                IF columns[c] \in ColumnSet(df) THEN r[ColumnIndex(df, columns[c])] ELSE NaN]
    IN  DataFrame([i \in 1..Len(a.rows) |-> Reindexed(a, a.rows[i])]
                    \o [i \in 1..Len(b.rows) |-> Reindexed(b, b.rows[i])],
                  columns)

\* the end of a run: the widgets it rendered stay on the page, and the stored
\* value of a checkbox that was not rendered is dropped
EndRun(widgets) ==
    /\ pc' = "idle"
    /\ shown' = widgets
    /\ proceedBox' = (("proceed" \in widgets) /\ proceedBox)

\* an interaction of the user starts the next run of main
Rerun(c) ==
    /\ pc = "idle"
    /\ click' = c
    /\ shownFirst' = unique_df1 /\ shownSecond' = unique_df2
    /\ pc' = "start"
    /\ df1' = None /\ error1' = None /\ df2' = None /\ error2' = None
    /\ loads' = {}
    /\ checked' = None
    /\ compareArgs' = None
    /\ unique_df1' = None /\ unique_df2' = None
    /\ combined_unique' = None
    /\ excerpt' = None
    /\ fault' = None
    /\ LoadOff
    /\ UNCHANGED <<shown, diffVars>>

\* st.file_uploader, lines 68-69: the user uploads, replaces or removes a file
Upload ==
    /\ \E f \in {None} \cup {Some(x) : x \in Files} :
          \/ file1' = f /\ f # file1 /\ UNCHANGED file2
          \/ file2' = f /\ f # file2 /\ UNCHANGED file1
    /\ Rerun("none")
    /\ UNCHANGED proceedBox

\* the user ticks or unticks the checkbox of line 121
ToggleProceed ==
    /\ "proceed" \in shown
    /\ proceedBox' = ~proceedBox
    /\ Rerun("none")
    /\ UNCHANGED <<file1, file2>>

\* the user clicks "Compare Files", line 125
ClickCompare ==
    /\ "compare" \in shown
    /\ Rerun("compare")
    /\ UNCHANGED <<file1, file2, proceedBox>>

\* the user clicks "Combine unique records", line 161
ClickCombine ==
    /\ "combine" \in shown
    /\ Rerun("combine")
    /\ UNCHANGED <<file1, file2, proceedBox>>

\* lines 59-73: `if file1 and file2:` and the call read_csv_safely(file1)
MainStart ==
    /\ pc = "start"
    /\ IF file1 # None /\ file2 # None
       THEN /\ pc' = "load1"
            /\ loads' = {1}
            /\ EnterLoad
            /\ UNCHANGED <<shown, proceedBox>>
       ELSE /\ EndRun({})
            /\ LoadOff
            /\ UNCHANGED loads
    /\ UNCHANGED <<df1, error1, df2, error2, checked, compareArgs, unique_df1,
                   unique_df2, combined_unique, excerpt, fault>>
    /\ UNCHANGED <<file1, file2, click, shownFirst, shownSecond, diffVars>>

\* lines 74-82 after the first load, lines 83-89 after the second: on an
\* error st.error, file.seek(0), st.code(file.read().decode('utf-8')[:500])
\* and return; else on to the second load, or to the file information
CheckError ==
    /\ Loading /\ lpc = "returned"
    /\ IF ReturnsAfterError(IF pc = "load1" THEN error1 ELSE error2)
       THEN /\ IF LoadedFile.textOK
               THEN excerpt' = Some(Min(ExcerptLen, LoadedFile.size)) /\ fault' = None
               ELSE excerpt' = None /\ fault' = Some("UnicodeDecodeError")
            /\ EndRun({})
            /\ LoadOff
            /\ UNCHANGED loads
       ELSE /\ IF pc = "load1"
               THEN pc' = "load2" /\ loads' = loads \cup {2} /\ EnterLoad
               ELSE pc' = "check" /\ UNCHANGED loads /\ LoadOff
            /\ UNCHANGED <<excerpt, fault, shown, proceedBox>>
    /\ UNCHANGED <<df1, error1, df2, error2, checked, compareArgs, unique_df1,
                   unique_df2, combined_unique>>
    /\ UNCHANGED <<file1, file2, click, shownFirst, shownSecond, diffVars>>

\* lines 91-122: the file information (len(df1) raises TypeError on None),
\* the sample data and the check `set(df1.columns) != set(df2.columns)`
CheckColumns ==
    /\ pc = "check"
    /\ IF df1 = None \/ df2 = None
       THEN /\ fault' = Some("TypeError")
            /\ EndRun({})
            /\ UNCHANGED checked
       ELSE /\ UNCHANGED fault
            /\ IF ColumnSet(Val(df1)) # ColumnSet(Val(df2))
               THEN /\ checked' = Some(proceedBox)
                    /\ IF ReturnsOnMismatch(proceedBox)
                       THEN EndRun({"proceed"})
                       ELSE pc' = "button" /\ UNCHANGED <<shown, proceedBox>>
               ELSE /\ pc' = "button"
                    /\ UNCHANGED <<checked, shown, proceedBox>>
    /\ UNCHANGED <<df1, error1, df2, error2, loads, compareArgs, unique_df1,
                   unique_df2, combined_unique, excerpt>>
    /\ UNCHANGED <<file1, file2, click, shownFirst, shownSecond, loadVars, diffVars>>

\* lines 124-173: `if st.button("Compare Files"):` find_unique_records, the
\* results, and inside it `if st.button("Combine unique records"):` pd.concat
CompareFiles ==
    /\ pc = "button"
    /\ IF ButtonPressed("compare")
       THEN /\ compareArgs' = Some(<<df1, df2>>)
            /\ \E r \in FindUniqueRecords(Val(df1), Val(df2)) :
                  /\ unique_df1' = Some(r[1])
                  /\ unique_df2' = Some(r[2])
                  /\ combined_unique' = IF ButtonPressed("combine")
                                        THEN Some(Concat(r[1], r[2]))
                                        ELSE None
            /\ EndRun({"compare", "combine"}
                        \cup (IF checked # None THEN {"proceed"} ELSE {}))
       ELSE /\ UNCHANGED <<compareArgs, unique_df1, unique_df2, combined_unique>>
            /\ EndRun({"compare"} \cup (IF checked # None THEN {"proceed"} ELSE {}))
    /\ UNCHANGED <<df1, error1, df2, error2, loads, checked, excerpt, fault>>
    /\ UNCHANGED <<file1, file2, click, shownFirst, shownSecond, loadVars, diffVars>>

Init ==
    /\ AppOff
    /\ pc = "start"
    /\ tableA = NoFrame /\ tableB = NoFrame
    /\ onlyInFirst = NoFrame /\ onlyInSecond = NoFrame
    /\ prevFirst = NoFrame /\ prevSecond = NoFrame
    /\ step = "off"

Next ==
    \/ Upload \/ ToggleProceed \/ ClickCompare \/ ClickCombine
    \/ MainStart \/ ReadSample \/ LenientPass \/ StrictPass \/ CheckError
    \/ CheckColumns \/ CompareFiles

Spec == Init /\ [][Next]_vars

(***************************************************************************)
(* The difference engine, checked under SpecDiff.                          *)
(***************************************************************************)
NoEqualRows(df) == \A i, j \in 1..Len(df.rows) : df.rows[i] = df.rows[j] => i = j

HasNaN(df) == \E i \in 1..Len(df.rows) : \E c \in 1..Len(df.rows[i]) : df.rows[i][c] = NaN

\* C1: the rows of onlyInFirst are exactly the rows of A that are not rows of
\* B, and the rows of onlyInSecond exactly the rows of B that are not rows of
\* A: no output row occurs in the other input, and every row of an input is
\* either in the other input or in its result, never both.
C1_ExactDifference ==
    step = "compared" =>
        /\ RowSet(onlyInFirst) = RowSet(tableA) \ RowSet(tableB)
        /\ RowSet(onlyInSecond) = RowSet(tableB) \ RowSet(tableA)
        /\ RowSet(onlyInFirst) \cap RowSet(tableB) = {}
        /\ RowSet(onlyInSecond) \cap RowSet(tableA) = {}
        /\ \A r \in RowSet(tableA) : (r \in RowSet(tableB)) # (r \in RowSet(onlyInFirst))
        /\ \A r \in RowSet(tableB) : (r \in RowSet(tableA)) # (r \in RowSet(onlyInSecond))

\* C2: a result table holds each of its rows once: no two rows of onlyInFirst
\* are equal, no two rows of onlyInSecond are equal, and a row of A that is
\* not in B occurs exactly once in onlyInFirst (likewise B and onlyInSecond).
C2_OneRowPerKey ==
    step = "compared" =>
        /\ NoEqualRows(onlyInFirst)
        /\ NoEqualRows(onlyInSecond)
        /\ \A r \in RowSet(tableA) \ RowSet(tableB) :
              Cardinality({i \in 1..Len(onlyInFirst.rows) : onlyInFirst.rows[i] = r}) = 1
        /\ \A r \in RowSet(tableB) \ RowSet(tableA) :
              Cardinality({i \in 1..Len(onlyInSecond.rows) : onlyInSecond.rows[i] = r}) = 1

\* C3: comparing a table A with a table of no rows returns the rows of A as
\* onlyInFirst (as a row-set) and a table of no rows as onlyInSecond, each
\* over its input's columns; two tables of no rows give two tables of no rows.
C3_EmptySecondTable ==
    (step = "compared" /\ tableB.rows = <<>>) =>
        /\ RowSet(onlyInFirst) = RowSet(tableA)
        /\ onlyInFirst.columns = tableA.columns
        /\ onlyInSecond = DataFrame(<<>>, tableB.columns)
        /\ (tableA.rows = <<>> => onlyInFirst = DataFrame(<<>>, tableA.columns))

\* C3's case: a table of MaxRows rows compared with a table of no rows
C3_Witness ==
    /\ step = "compared"
    /\ tableB.rows = <<>>
    /\ Len(tableA.rows) = MaxRows
    /\ onlyInFirst.rows # <<>>

\* C8: the rows of onlyInFirst from comparing (A, B) are the rows of
\* onlyInSecond from comparing (B, A), and the other way round.
C8_Symmetry ==
    step = "swapped" =>
        /\ RowSet(onlyInSecond) = RowSet(prevFirst)
        /\ RowSet(onlyInFirst) = RowSet(prevSecond)

\* C8's case: both orders compared, with rows on each side only and shared rows
C8_Witness ==
    /\ step = "swapped"
    /\ onlyInFirst.rows # <<>>
    /\ onlyInSecond.rows # <<>>
    /\ RowSet(tableA) \cap RowSet(tableB) # {}

\* C9: with one more copy of a row of A appended to A (or of a row of B to
\* B), the comparison returns the same row-sets and the same row counts.
C9_DuplicateChangesNothing ==
    step \in {"dupA", "dupB"} =>
        /\ RowSet(onlyInFirst) = RowSet(prevFirst)
        /\ RowSet(onlyInSecond) = RowSet(prevSecond)
        /\ Len(onlyInFirst.rows) = Len(prevFirst.rows)
        /\ Len(onlyInSecond.rows) = Len(prevSecond.rows)

\* C1, C2 and C9 restricted to tables in which no field is empty
DifferenceWithoutNaN ==
    (~HasNaN(tableA) /\ ~HasNaN(tableB)) =>
        /\ C1_ExactDifference
        /\ C2_OneRowPerKey
        /\ C9_DuplicateChangesNothing


(***************************************************************************)
(* The application, checked under Spec.                                    *)
(***************************************************************************)
\* what the call of read_csv_safely in progress returned
LoadedDf == IF pc = "load1" THEN df1 ELSE df2
LoadedError == IF pc = "load1" THEN error1 ELSE error2

\* C4: when the column sets of the two tables differ, find_unique_records is
\* called only in a run in which st.checkbox returned True; a run in which it
\* returned False has ended without a comparison; and a checkbox that is not
\* on the page holds False, so the override is never on before the user
\* ticks it.
C4_NoCompareWithoutOverride ==
    /\ (compareArgs # None /\ ColumnSet(Val(df1)) # ColumnSet(Val(df2)))
          => checked = Some(TRUE)
    /\ checked = Some(FALSE)
          => (pc = "idle" /\ compareArgs = None /\ unique_df1 = None /\ unique_df2 = None)
    /\ "proceed" \notin shown => ~proceedBox

\* C4's case: tables of different columns compared after the user ticked the box
C4_Witness ==
    /\ compareArgs # None
    /\ ColumnSet(Val(df1)) # ColumnSet(Val(df2))
    /\ checked = Some(TRUE)
    /\ unique_df1 # None

\* C5: no exception escapes main; a load returns either a table and no error
\* or no table and a message; and a run that ended on a failed load has
\* displayed the first 500 characters of that file.
C5_NoFaultEscapes ==
    /\ fault = None
    /\ (Loading /\ lpc = "returned") =>
          \/ LoadedDf # None /\ LoadedError = None
          \/ LoadedDf = None /\ LoadedError # None /\ Val(LoadedError) # ""
    /\ (pc = "idle" /\ (error1 # None \/ error2 # None)) => excerpt # None

\* the part of C5 that is about read_csv_safely alone
LoadOutcomeStructured ==
    (Loading /\ lpc = "returned") =>
        \/ LoadedDf # None /\ LoadedError = None
        \/ LoadedDf = None /\ LoadedError # None /\ Val(LoadedError) # ""

\* C6: within one load each pass is attempted at most once; the strict pass
\* is attempted only after the lenient pass raised, and always once it has;
\* both passes read from position 0; and when the lenient pass succeeds the
\* load returns its table and the strict pass has not run.
C6_OneShotFallback ==
    /\ lenientTries <= 1 /\ strictTries <= 1
    /\ strictTries = 1 => (lenientTries = 1 /\ lenientFailed)
    /\ (lpc = "returned" /\ lenientFailed) => strictTries = 1
    /\ lpc = "strict" => (lenientTries = 1 /\ lenientFailed /\ strictTries = 0)
    /\ lenientTries = 1 => lenientStart = Some(0)
    /\ strictTries = 1 => strictStart = Some(0)
    /\ (lpc = "returned" /\ lenientTries = 1 /\ ~lenientFailed) =>
          /\ strictTries = 0
          /\ LoadedDf = LoadedFile.lenient
          /\ LoadedError = None

\* C6's case: the lenient pass raised part-way through the file and the
\* strict pass produced the table
C6_Witness ==
    /\ Loading /\ lpc = "returned"
    /\ lenientFailed
    /\ strictTries = 1
    /\ LoadedDf = LoadedFile.strict
    /\ LoadedDf # None

\* C7: the run started by a click on "Combine unique records", made while the
\* results of a comparison are on the page, builds the combined table: the
\* rows of onlyInFirst in their order, then the rows of onlyInSecond.
C7_CombinedIsConcatenation ==
    (pc = "idle" /\ click = "combine" /\ shownFirst # None /\ shownSecond # None) =>
        /\ combined_unique # None
        /\ Val(combined_unique).rows = Val(shownFirst).rows \o Val(shownSecond).rows
        /\ Len(Val(combined_unique).rows)
              = Len(Val(shownFirst).rows) + Len(Val(shownSecond).rows)

\* no run of main reaches pd.concat, line 162
CombineNeverRuns == combined_unique = None

=============================================================================
